---- MODULE Spec2Model ----
(***************************************************************************)
(* Model of the Firebird connection wrapper (app/firebird/connection.js   *)
(* and app/firebird/transaction.js).  One Connection object is shared by   *)
(* several callers.  Every driver call (attach, create, detach,            *)
(* transaction, query, newStatement, commit, rollback) is asynchronous:    *)
(* an action issues it and a later callback action delivers success or    *)
(* an error, chosen by the driver.                                         *)
(***************************************************************************)
EXTENDS Integers, Sequences, FiniteSets, TLC

\* Bounds of the model
MaxSlots == 2       \* calls in flight at the same time
MaxCalls == 3       \* calls other than create()/open() made in one behaviour
MaxOpens == 2       \* create()/open() calls that are pending or have succeeded
MaxTime == 2        \* ticks of the clock

VARIABLES
    database,                \* this.database: 0 is null, h > 0 is a driver handle
    readTransactionPromise,  \* this.readTransactionPromise
    txs,                     \* driver transactions, in order of creation
    handles,                 \* driver handles, in order of creation
    calls,                   \* the calls in flight or last returned, by slot
    nCalls,                  \* number of calls made so far, create()/open() apart
    now,                     \* Date.now(), counted from the construction
    lastActive,              \* this.lastActive
    observed,                \* what isConnected() and getInactiveTime() returned last
    moment,                  \* the momentUtils call under way, see below
    options,                 \* this.options
    readTransaction,         \* this.readTransaction of src/unnamed/part_000: 0 is null
    keyCall                  \* the filterKeys/parseKey call under way, see below

vars == <<database, readTransactionPromise, txs, handles, calls, nCalls, now, lastActive,
          observed, moment, options, readTransaction, keyCall>>

Slots == 1..MaxSlots

\* this.readTransactionPromise: null, or a promise that is pending on the start
\* of driver transaction tx, resolved with the Transaction of tx, or rejected
\* with err
NullPromise == [st |-> "null", tx |-> 0, err |-> "none"]
\* A call record: op is the method called, pc the step it waits at, tx the
\* transaction it works on, h the handle close() has called detach on, out/val
\* the state of the promise it returned.
\* note is a history field, read by no action: "disconnected" when the call was
\* made without a handle, "cached" when close() was called with a read
\* transaction promise present, or the first failure met by a write wrapper
\* ("start", "query", "actionRejected", "actionThrew", "commit").
IdleCall ==
    [op |-> "none", pc |-> "idle", tx |-> 0, h |-> 0, out |-> "none", val |-> "none", note |-> "none"]

\* a call whose returned promise is still pending, at step pc
Pending(op, pc, tx, val, note) ==
    [op |-> op, pc |-> pc, tx |-> tx, h |-> 0, out |-> "none", val |-> val, note |-> note]
\* a call whose returned promise has settled
Settled(op, tx, out, val, note) ==
    [op |-> op, pc |-> "done", tx |-> tx, h |-> 0, out |-> out, val |-> val, note |-> note]
\* a call whose returned promise can no longer settle
Hung(op, tx, note) ==
    [op |-> op, pc |-> "hung", tx |-> tx, h |-> 0, out |-> "none", val |-> "none", note |-> note]

isConnected == database # 0

\* history: was the connection without a handle when the call was made
NoteAtCall == IF database = 0 THEN "disconnected" ELSE "none"

\* the driver's database.transaction(isolation, cb): a new driver transaction
NewTx(iso) == [iso |-> iso, h |-> database, st |-> "pending", commits |-> 0, rollbacks |-> 0]

Free(c) == calls[c].pc \in {"idle", "done", "hung"}

\* a new call is recorded in the first free slot
FirstFree(c) ==
    /\ Free(c)
    /\ \A d \in Slots : d < c => ~Free(d)

\* a caller may make a new call
CanCall(c) ==
    /\ nCalls < MaxCalls
    /\ FirstFree(c)

\* a caller may call create() or open()
CanOpen(c) ==
    /\ Len(handles) + Cardinality({d \in Slots : calls[d].pc = "attach"}) < MaxOpens
    /\ FirstFree(c)

\* this.options after the constructor: utils.parseUrl(url) with user, password
\* and lowercase_keys set
ConstructedOptions ==
    [parsedUrl |-> "url", user |-> "user", password |-> "password", lowercase_keys |-> TRUE]

\* no filterKeys/parseKey call is under way
NoKeyCall == [fn |-> "none"]

\* no momentUtils call is under way
NoMoment == [fn |-> "none"]

\* utils.updateLastActive(connection): connection.lastActive = Date.now()
updateLastActive == lastActive' = now

\* a step that calls utils.updateLastActive
Stamped ==
    /\ updateLastActive
    /\ UNCHANGED <<now, observed, moment, options, readTransaction, keyCall>>

\* a step that does not call it
Unstamped == UNCHANGED <<now, lastActive, observed, moment, options, readTransaction, keyCall>>

Init ==
    /\ database = 0
    /\ readTransactionPromise = NullPromise
    /\ txs = <<>>
    /\ handles = <<>>
    /\ calls = [c \in Slots |-> IdleCall]
    /\ nCalls = 0
    /\ now = 0
    /\ lastActive = 0
    /\ observed = [connected |-> FALSE, inactive |-> 0]
    /\ moment = NoMoment
    /\ options = ConstructedOptions
    /\ readTransaction = 0
    /\ keyCall = NoKeyCall

----------------------------------------------------------------------------
\* create() and open()

\* create() and open() differ only in the driver function they call
\* (FBDriver.create, FBDriver.attach); both are recorded as op "open"
attach(c) ==
    /\ CanOpen(c)
    /\ calls' = [calls EXCEPT ![c] = Pending("open", "attach", 0, "none", "none")]
    /\ UNCHANGED <<database, readTransactionPromise, txs, handles, nCalls>>
    /\ Stamped

create(c) == attach(c)

open(c) == attach(c)

\* variant: a refused attach clears the handle
attachCallback_clearsOnError(c, ok) ==
    /\ calls[c].pc = "attach"
    /\ IF ok
         THEN /\ handles' = Append(handles, [detaches |-> 0, st |-> "attached"])
              /\ database' = Len(handles) + 1
              /\ calls' = [calls EXCEPT ![c] = Settled(calls[c].op, 0, "resolved", "connection", "none")]
         ELSE /\ calls' = [calls EXCEPT ![c] = Settled(calls[c].op, 0, "rejected", "AttachErr", "none")]
              /\ database' = 0
              /\ UNCHANGED handles
    /\ UNCHANGED <<readTransactionPromise, txs, nCalls>>
    /\ Unstamped

\* variant: a detach that succeeded forgets the read transaction promise
detachCallback_resetsReadTransaction(c, ok) ==
    /\ calls[c].pc = "detach"
    /\ IF ok
         THEN /\ handles' = [handles EXCEPT ![calls[c].h].st = "detached"]
              /\ database' = 0
              /\ readTransactionPromise' = NullPromise
              /\ calls' = [calls EXCEPT ![c].pc = "done", ![c].out = "resolved", ![c].val = "undefined"]
         ELSE /\ calls' = [calls EXCEPT ![c].pc = "done", ![c].out = "rejected", ![c].val = "DetachErr"]
              /\ UNCHANGED <<database, handles, readTransactionPromise>>
    /\ UNCHANGED <<txs, nCalls>>
    /\ Unstamped

\* variant: a refused detach clears the handle all the same
detachCallback_clearsOnError(c, ok) ==
    /\ calls[c].pc = "detach"
    /\ IF ok
         THEN /\ handles' = [handles EXCEPT ![calls[c].h].st = "detached"]
              /\ database' = 0
              /\ calls' = [calls EXCEPT ![c].pc = "done", ![c].out = "resolved", ![c].val = "undefined"]
         ELSE /\ calls' = [calls EXCEPT ![c].pc = "done", ![c].out = "rejected", ![c].val = "DetachErr"]
              /\ database' = 0
              /\ UNCHANGED handles
    /\ UNCHANGED <<readTransactionPromise, txs, nCalls>>
    /\ Unstamped

\* FBDriver.attach / FBDriver.create calls back
attachCallback(c, ok) ==
    /\ calls[c].pc = "attach"
    /\ IF ok
         THEN /\ handles' = Append(handles, [detaches |-> 0, st |-> "attached"])
              /\ database' = Len(handles) + 1
              /\ calls' = [calls EXCEPT ![c] = Settled(calls[c].op, 0, "resolved", "connection", "none")]
         ELSE /\ calls' = [calls EXCEPT ![c] = Settled(calls[c].op, 0, "rejected", "AttachErr", "none")]
              /\ UNCHANGED <<database, handles>>
    /\ UNCHANGED <<readTransactionPromise, txs, nCalls>>
    /\ Unstamped

----------------------------------------------------------------------------
\* close()

\* variant: close() proceeds without a handle
closeMayProceed_always == TRUE

\* close() rejects at once unless connected
closeMayProceed == isConnected

\* variant: close() detaches without looking at the read transaction
closeNextStep_detachAtOnce == "closeDetach"

\* the step of close() after looking at readTransactionPromise
closeNextStep == IF readTransactionPromise.st # "null" THEN "closeWait" ELSE "closeDetach"

close(c) ==
    /\ CanCall(c)
    /\ nCalls' = nCalls + 1
    /\ IF ~closeMayProceed
         THEN calls' = [calls EXCEPT ![c] = Settled("close", 0, "rejected", "NotConnected", NoteAtCall)]
         ELSE calls' = [calls EXCEPT ![c] = Pending("close", "closeCheck", 0, "none",
                            IF readTransactionPromise.st # "null" THEN "cached" ELSE NoteAtCall)]
    /\ UNCHANGED <<database, readTransactionPromise, txs, handles>>
    /\ Stamped

\* first then() of close(): is there a read transaction promise?
closeCheck(c) ==
    /\ calls[c].pc = "closeCheck"
    /\ calls' = [calls EXCEPT ![c].pc = closeNextStep]
    /\ UNCHANGED <<database, readTransactionPromise, txs, handles, nCalls>>
    /\ Unstamped

\* readTransactionPromise.then(transaction => transaction.rollback())
closeRollback(c) ==
    /\ calls[c].pc = "closeWait"
    /\ readTransactionPromise.st \in {"resolved", "rejected"}
    /\ IF readTransactionPromise.st = "resolved"
         THEN LET t == readTransactionPromise.tx IN
              /\ txs' = [txs EXCEPT ![t].rollbacks = @ + 1]
              /\ calls' = [calls EXCEPT ![c].pc = "closeRollback", ![c].tx = t]
         ELSE \* the chain is rejected and nobody calls reject(): close() never settles
              /\ calls' = [calls EXCEPT ![c].pc = "hung"]
              /\ UNCHANGED txs
    /\ UNCHANGED <<database, readTransactionPromise, handles, nCalls>>
    /\ IF readTransactionPromise.st = "resolved" THEN Stamped ELSE Unstamped

\* second then() of close(): this.database.detach(cb)
closeDetach(c) ==
    IF isConnected
      THEN /\ handles' = [handles EXCEPT ![database].detaches = @ + 1]
           /\ calls' = [calls EXCEPT ![c].pc = "detach", ![c].h = database]
      ELSE \* this.database is null: TypeError inside then(), close() never settles
           /\ calls' = [calls EXCEPT ![c].pc = "hung"]
           /\ UNCHANGED handles

\* the driver calls back the rollback issued by close(); when it succeeded the
\* second then() of close() runs
closeRollbackCallback(c, ok) ==
    /\ calls[c].pc = "closeRollback"
    /\ IF ok
         THEN /\ txs' = [txs EXCEPT ![calls[c].tx].st = "rolledback"]
              /\ closeDetach(c)
         ELSE \* the chain is rejected and nobody calls reject(): close() never settles
              /\ calls' = [calls EXCEPT ![c].pc = "hung"]
              /\ UNCHANGED <<txs, handles>>
    /\ UNCHANGED <<database, readTransactionPromise, nCalls>>
    /\ Unstamped

\* close() found no read transaction promise; the second then() runs
closeThenDetach(c) ==
    /\ calls[c].pc = "closeDetach"
    /\ closeDetach(c)
    /\ UNCHANGED <<database, readTransactionPromise, txs, nCalls>>
    /\ Unstamped

\* the driver calls back detach
detachCallback(c, ok) ==
    /\ calls[c].pc = "detach"
    /\ IF ok
         THEN /\ handles' = [handles EXCEPT ![calls[c].h].st = "detached"]
              /\ database' = 0
              /\ calls' = [calls EXCEPT ![c].pc = "done", ![c].out = "resolved", ![c].val = "undefined"]
         ELSE /\ calls' = [calls EXCEPT ![c].pc = "done", ![c].out = "rejected", ![c].val = "DetachErr"]
              /\ UNCHANGED <<database, handles>>
    /\ UNCHANGED <<readTransactionPromise, txs, nCalls>>
    /\ Unstamped

----------------------------------------------------------------------------
\* getReadTransaction(), queryRead(), prepareReadStatement()

\* variant: the test never finds the cached promise
mustCreateReadPromise_always == TRUE

\* if (!this.readTransactionPromise)
mustCreateReadPromise == readTransactionPromise.st = "null"

\* getReadTransaction() as called by operation op
callGetReadTransaction(c, op) ==
    /\ CanCall(c)
    /\ nCalls' = nCalls + 1
    /\ IF mustCreateReadPromise
         THEN IF ~isConnected
                THEN /\ readTransactionPromise' = [st |-> "rejected", tx |-> 0, err |-> "NotConnected"]
                     /\ UNCHANGED txs
                ELSE /\ txs' = Append(txs, NewTx("READ"))
                     /\ readTransactionPromise' = [st |-> "pending", tx |-> Len(txs) + 1, err |-> "none"]
         ELSE UNCHANGED <<readTransactionPromise, txs>>
    /\ calls' = [calls EXCEPT ![c] = Pending(op, "readPromise", 0, "none", NoteAtCall)]
    /\ UNCHANGED <<database, handles>>
    /\ Stamped

getReadTransaction(c) == callGetReadTransaction(c, "getReadTransaction")

queryRead(c) == callGetReadTransaction(c, "queryRead")

prepareReadStatement(c) == callGetReadTransaction(c, "prepareReadStatement")

\* the driver calls back database.transaction(ISOLATION_READ, cb)
readTransactionCallback(ok) ==
    /\ readTransactionPromise.st = "pending"
    /\ LET t == readTransactionPromise.tx IN
       IF ok
         THEN /\ txs' = [txs EXCEPT ![t].st = "active"]
              /\ readTransactionPromise' = [st |-> "resolved", tx |-> t, err |-> "none"]
         ELSE /\ txs' = [txs EXCEPT ![t].st = "failed"]
              /\ readTransactionPromise' = [st |-> "rejected", tx |-> 0, err |-> "StartErr"]
    /\ UNCHANGED <<database, handles, calls, nCalls>>
    /\ Unstamped

\* the then() of a caller of getReadTransaction() once the promise has settled
readTransactionThen(c) ==
    /\ calls[c].pc = "readPromise"
    /\ readTransactionPromise.st \in {"resolved", "rejected"}
    /\ LET op == calls[c].op
           t == readTransactionPromise.tx
       IN IF readTransactionPromise.st = "rejected"
            THEN /\ calls' = [calls EXCEPT ![c] = Settled(op, 0, "rejected", readTransactionPromise.err, calls[c].note)]
                 /\ UNCHANGED txs
            ELSE CASE op = "getReadTransaction" ->
                        /\ calls' = [calls EXCEPT ![c] = Settled(op, t, "resolved", "transaction", calls[c].note)]
                        /\ UNCHANGED txs
                   [] op = "queryRead" ->
                        \* transaction.query(sql, params)
                        /\ calls' = [calls EXCEPT ![c] = Pending(op, "query", t, "none", calls[c].note)]
                        /\ UNCHANGED txs
                   [] op = "prepareReadStatement" ->
                        \* this.prepareStatement(tr, sql)
                        /\ calls' = [calls EXCEPT ![c] = Pending(op, "prepare", t, "none", calls[c].note)]
                        /\ UNCHANGED txs
    /\ UNCHANGED <<database, readTransactionPromise, handles, nCalls>>
    /\ IF readTransactionPromise.st = "resolved" /\ calls[c].op \in {"queryRead", "prepareReadStatement"}
         THEN Stamped
         ELSE Unstamped

\* the driver calls back newStatement
prepareCallback(c, ok) ==
    /\ calls[c].pc = "prepare"
    /\ calls' = [calls EXCEPT ![c] =
                    IF ok THEN Settled(calls[c].op, calls[c].tx, "resolved", "statement", calls[c].note)
                          ELSE Settled(calls[c].op, calls[c].tx, "rejected", "PrepareErr", calls[c].note)]
    /\ UNCHANGED <<database, readTransactionPromise, txs, handles, nCalls>>
    /\ Unstamped

----------------------------------------------------------------------------
\* getWriteTransaction(), queryWrite(), onWriteTransaction()

\* variant: the write transaction is started with the isolation of reads
NewWriteTx_readIsolation == NewTx("READ")

\* this.database.transaction(FBDriver.ISOLATION_WRITE, cb)
NewWriteTx == NewTx("WRITE")

\* getWriteTransaction() as called by operation op
callGetWriteTransaction(c, op) ==
    /\ CanCall(c)
    /\ nCalls' = nCalls + 1
    /\ IF ~isConnected
         THEN /\ calls' = [calls EXCEPT ![c] = Settled(op, 0, "rejected", "NotConnected", NoteAtCall)]
              /\ UNCHANGED txs
         ELSE /\ txs' = Append(txs, NewWriteTx)
              /\ calls' = [calls EXCEPT ![c] = Pending(op, "start", Len(txs) + 1, "none", NoteAtCall)]
    /\ UNCHANGED <<database, readTransactionPromise, handles>>
    /\ Stamped

getWriteTransaction(c) == callGetWriteTransaction(c, "getWriteTransaction")

queryWrite(c) == callGetWriteTransaction(c, "queryWrite")

onWriteTransaction(c) == callGetWriteTransaction(c, "onWriteTransaction")

\* variant: the wrapper commits the transaction that was started last
thenCommit_latest(c, result) ==
    /\ txs' = [txs EXCEPT ![Len(txs)].commits = @ + 1]
    /\ calls' = [calls EXCEPT ![c] = Pending(calls[c].op, "commit", calls[c].tx, result, calls[c].note)]

\* transaction.commit() issued by a write wrapper that holds result
thenCommit(c, result) ==
    /\ txs' = [txs EXCEPT ![calls[c].tx].commits = @ + 1]
    /\ calls' = [calls EXCEPT ![c] = Pending(calls[c].op, "commit", calls[c].tx, result, calls[c].note)]

\* variant: the catch handler rethrows without rolling back
catchRollback_rethrowOnly(c, e, failure) ==
    /\ txs' = txs
    /\ calls' = [calls EXCEPT ![c] = Settled(calls[c].op, calls[c].tx, "rejected", e, failure)]

\* .catch(e => transaction.rollback()...) of a write wrapper
catchRollback(c, e, failure) ==
    /\ txs' = [txs EXCEPT ![calls[c].tx].rollbacks = @ + 1]
    /\ calls' = [calls EXCEPT ![c] = Pending(calls[c].op, "rollback", calls[c].tx, e, failure)]

\* variant: the promise of commit() is returned as it is
commitThenResult_commitValue(result) == "undefined"

\* transaction.commit().then(() => result)
commitThenResult(result) == result

\* variant: a failed rollback() is returned instead of rethrowing e
finallyThrow_rollbackError(rollbackOk, e) == IF rollbackOk THEN e ELSE "RollbackErr"

\* transaction.rollback().finally(() => { throw e; }): the error thrown by the
\* finally handler replaces the outcome of rollback(), fulfilled or rejected
finallyThrow(rollbackOk, e) == e

\* the driver calls back database.transaction(ISOLATION_WRITE, cb)
writeTransactionCallback(c, ok, actionThrows) ==
    /\ calls[c].pc = "start"
    /\ LET op == calls[c].op
           t == calls[c].tx
       IN IF ~ok
            THEN /\ txs' = [txs EXCEPT ![t].st = "failed"]
                 /\ calls' = [calls EXCEPT ![c] = Settled(op, t, "rejected", "StartErr", "start")]
            ELSE CASE op = "getWriteTransaction" ->
                        /\ txs' = [txs EXCEPT ![t].st = "active"]
                        /\ calls' = [calls EXCEPT ![c] = Settled(op, t, "resolved", "transaction", "none")]
                   [] op = "queryWrite" ->
                        /\ txs' = [txs EXCEPT ![t].st = "active"]
                        /\ calls' = [calls EXCEPT ![c] = Pending(op, "query", t, "none", "none")]
                   [] op = "onWriteTransaction" ->
                        /\ txs' = [txs EXCEPT ![t].st = "active"]
                        /\ calls' = [calls EXCEPT ![c] =
                               IF actionThrows
                                 THEN \* action(transaction) throws inside then()
                                      Settled(op, t, "rejected", "ActionErr", "actionThrew")
                                 ELSE Pending(op, "action", t, "none", "none")]
    /\ UNCHANGED <<database, readTransactionPromise, handles, nCalls>>
    /\ IF ok /\ calls[c].op = "queryWrite" THEN Stamped ELSE Unstamped

\* variant: queryRead() finishes its query the way queryWrite() does
queryReadResult_asWrite(c, ok) ==
    IF ok THEN thenCommit(c, "rows") ELSE catchRollback(c, "QueryErr", "query")

\* queryRead(): the promise of transaction.query(sql, params) is the result
queryReadResult(c, ok) ==
    /\ calls' = [calls EXCEPT ![c] =
            IF ok THEN Settled("queryRead", calls[c].tx, "resolved", "rows", calls[c].note)
                  ELSE Settled("queryRead", calls[c].tx, "rejected", "QueryErr", calls[c].note)]
    /\ UNCHANGED txs

\* the driver calls back the query of queryRead() or queryWrite()
queryCallback(c, ok) ==
    /\ calls[c].pc = "query"
    /\ IF calls[c].op = "queryRead"
         THEN queryReadResult(c, ok)
         ELSE IF ok THEN thenCommit(c, "rows") ELSE catchRollback(c, "QueryErr", "query")
    /\ UNCHANGED <<database, readTransactionPromise, handles, nCalls>>
    /\ IF calls[c].op = "queryRead" THEN Unstamped ELSE Stamped

\* the promise returned by action(transaction) settles
actionSettled(c, ok) ==
    /\ calls[c].pc = "action"
    /\ IF ok THEN thenCommit(c, "actionResult") ELSE catchRollback(c, "ActionErr", "actionRejected")
    /\ UNCHANGED <<database, readTransactionPromise, handles, nCalls>>
    /\ Stamped

\* the driver calls back the commit of a write wrapper
commitCallback(c, ok) ==
    /\ calls[c].pc = "commit"
    /\ IF ok
         THEN /\ txs' = [txs EXCEPT ![calls[c].tx].st = "committed"]
              /\ calls' = [calls EXCEPT ![c] =
                     Settled(calls[c].op, calls[c].tx, "resolved", commitThenResult(calls[c].val), calls[c].note)]
         ELSE catchRollback(c, "CommitErr", "commit")
    /\ UNCHANGED <<database, readTransactionPromise, handles, nCalls>>
    /\ IF ok THEN Unstamped ELSE Stamped

\* the driver calls back the rollback of a write wrapper
rollbackCallback(c, ok) ==
    /\ calls[c].pc = "rollback"
    /\ txs' = [txs EXCEPT ![calls[c].tx].st = IF ok THEN "rolledback" ELSE @]
    /\ calls' = [calls EXCEPT ![c] =
           Settled(calls[c].op, calls[c].tx, "rejected", finallyThrow(ok, calls[c].val), calls[c].note)]
    /\ UNCHANGED <<database, readTransactionPromise, handles, nCalls>>
    /\ Unstamped

----------------------------------------------------------------------------
\* The methods of Transaction and the methods of Connection that take one,
\* called by a caller on a Transaction it holds

TransactionOps ==
    {"query", "prepareStatement", "transactionQuery", "transactionCommit",
     "transactionRollback", "transactionPrepareStatement"}

\* the caller holds the Transaction that its last getReadTransaction() or
\* getWriteTransaction() resolved to, or that its last call worked on
Held(t) ==
    \E d \in Slots :
        /\ calls[d].pc = "done"
        /\ calls[d].tx = t
        /\ \/ calls[d].op \in {"getReadTransaction", "getWriteTransaction"} /\ calls[d].out = "resolved"
           \/ calls[d].op \in TransactionOps

\* history: had the driver confirmed a commit or a rollback of t when the call
\* was made
NoteOfTransaction(t) == IF txs[t].st \in {"committed", "rolledback"} THEN "finalized" ELSE "none"

\* variant: the method hands the call to the driver without stamping
callTransaction_unstamped(c, t, op) ==
    /\ CanCall(c)
    /\ Held(t)
    /\ nCalls' = nCalls + 1
    /\ txs' = [txs EXCEPT
           ![t].commits = IF op = "transactionCommit" THEN @ + 1 ELSE @,
           ![t].rollbacks = IF op = "transactionRollback" THEN @ + 1 ELSE @]
    /\ calls' = [calls EXCEPT ![c] = Pending(op, "transaction", t, "none", NoteOfTransaction(t))]
    /\ UNCHANGED <<database, readTransactionPromise, handles>>
    /\ Unstamped

\* a method is called on Transaction t: it stamps the connection and hands the
\* call to the driver, whatever the state of t
callTransaction(c, t, op) ==
    /\ CanCall(c)
    /\ Held(t)
    /\ nCalls' = nCalls + 1
    /\ txs' = [txs EXCEPT
           ![t].commits = IF op = "transactionCommit" THEN @ + 1 ELSE @,
           ![t].rollbacks = IF op = "transactionRollback" THEN @ + 1 ELSE @]
    /\ calls' = [calls EXCEPT ![c] = Pending(op, "transaction", t, "none", NoteOfTransaction(t))]
    /\ UNCHANGED <<database, readTransactionPromise, handles>>
    /\ Stamped

\* Connection.query(transaction, sql, params)
query(c, t) == callTransaction(c, t, "query")

\* Connection.prepareStatement(transactionWrapper, sql)
prepareStatement(c, t) == callTransaction(c, t, "prepareStatement")

transactionQuery(c, t) == callTransaction(c, t, "transactionQuery")

transactionCommit(c, t) == callTransaction(c, t, "transactionCommit")

transactionRollback(c, t) == callTransaction(c, t, "transactionRollback")

transactionPrepareStatement(c, t) == callTransaction(c, t, "transactionPrepareStatement")

\* what the promise of a Transaction method resolves with
ResolvedWith(op) ==
    CASE op \in {"query", "transactionQuery"} -> "rows"
      [] op \in {"prepareStatement", "transactionPrepareStatement"} -> "statement"
      [] OTHER -> "undefined"

\* the error the driver calls back with
DriverError(op) ==
    CASE op \in {"query", "transactionQuery"} -> "QueryErr"
      [] op \in {"prepareStatement", "transactionPrepareStatement"} -> "PrepareErr"
      [] op = "transactionCommit" -> "CommitErr"
      [] OTHER -> "RollbackErr"

\* the driver calls back the call of a Transaction method
transactionCallback(c, ok) ==
    /\ calls[c].pc = "transaction"
    /\ LET op == calls[c].op
           t == calls[c].tx
       IN IF ok
            THEN /\ txs' = [txs EXCEPT ![t].st =
                        CASE op = "transactionCommit" /\ @ = "active" -> "committed"
                          [] op = "transactionRollback" /\ @ = "active" -> "rolledback"
                          [] OTHER -> @]
                 /\ calls' = [calls EXCEPT ![c] = Settled(op, t, "resolved", ResolvedWith(op), calls[c].note)]
            ELSE /\ calls' = [calls EXCEPT ![c] = Settled(op, t, "rejected", DriverError(op), calls[c].note)]
                 /\ UNCHANGED txs
    /\ UNCHANGED <<database, readTransactionPromise, handles, nCalls>>
    /\ Unstamped

----------------------------------------------------------------------------
\* The clock, isConnected() and getInactiveTime()

\* Date.now() moves on
tick ==
    /\ now < MaxTime
    /\ now' = now + 1
    /\ UNCHANGED <<database, readTransactionPromise, txs, handles, calls, nCalls, lastActive,
                   observed, moment, options, readTransaction, keyCall>>

\* variant: the difference is taken the other way round
getInactiveTime_reversed == lastActive - now

\* return Date.now() - this.lastActive
getInactiveTime == now - lastActive

\* a caller calls isConnected()
callIsConnected ==
    /\ observed' = [observed EXCEPT !.connected = isConnected]
    /\ UNCHANGED <<database, readTransactionPromise, txs, handles, calls, nCalls, now,
                   lastActive, moment, options, readTransaction, keyCall>>

\* a caller calls getInactiveTime()
callGetInactiveTime ==
    /\ observed' = [observed EXCEPT !.inactive = getInactiveTime]
    /\ UNCHANGED <<database, readTransactionPromise, txs, handles, calls, nCalls, now,
                   lastActive, moment, options, readTransaction, keyCall>>

----------------------------------------------------------------------------
Next ==
    \/ \E c \in Slots : create(c)
    \/ \E c \in Slots : open(c)
    \/ \E c \in Slots, ok \in BOOLEAN : attachCallback(c, ok)
    \/ \E c \in Slots : close(c)
    \/ \E c \in Slots : closeCheck(c)
    \/ \E c \in Slots : closeRollback(c)
    \/ \E c \in Slots, ok \in BOOLEAN : closeRollbackCallback(c, ok)
    \/ \E c \in Slots : closeThenDetach(c)
    \/ \E c \in Slots, ok \in BOOLEAN : detachCallback(c, ok)
    \/ \E c \in Slots : getReadTransaction(c)
    \/ \E c \in Slots : queryRead(c)
    \/ \E c \in Slots : prepareReadStatement(c)
    \/ \E ok \in BOOLEAN : readTransactionCallback(ok)
    \/ \E c \in Slots : readTransactionThen(c)
    \/ \E c \in Slots, ok \in BOOLEAN : prepareCallback(c, ok)
    \/ \E c \in Slots : getWriteTransaction(c)
    \/ \E c \in Slots : queryWrite(c)
    \/ \E c \in Slots : onWriteTransaction(c)
    \/ \E c \in Slots, ok, actionThrows \in BOOLEAN : writeTransactionCallback(c, ok, actionThrows)
    \/ \E c \in Slots, ok \in BOOLEAN : queryCallback(c, ok)
    \/ \E c \in Slots, ok \in BOOLEAN : actionSettled(c, ok)
    \/ \E c \in Slots, ok \in BOOLEAN : commitCallback(c, ok)
    \/ \E c \in Slots, ok \in BOOLEAN : rollbackCallback(c, ok)

Spec == Init /\ [][Next]_vars

\* the steps that carry on the call in slot c: callbacks of the driver and
\* then() handlers of settled promises
Callbacks(c) ==
    \/ \E ok \in BOOLEAN : attachCallback(c, ok)
    \/ closeCheck(c)
    \/ closeRollback(c)
    \/ \E ok \in BOOLEAN : closeRollbackCallback(c, ok)
    \/ closeThenDetach(c)
    \/ \E ok \in BOOLEAN : detachCallback(c, ok)
    \/ readTransactionThen(c)
    \/ \E ok \in BOOLEAN : prepareCallback(c, ok)
    \/ \E ok, actionThrows \in BOOLEAN : writeTransactionCallback(c, ok, actionThrows)
    \/ \E ok \in BOOLEAN : queryCallback(c, ok)
    \/ \E ok \in BOOLEAN : actionSettled(c, ok)
    \/ \E ok \in BOOLEAN : commitCallback(c, ok)
    \/ \E ok \in BOOLEAN : rollbackCallback(c, ok)

\* the calls a caller makes in slot c
Calls(c) ==
    \/ create(c)
    \/ open(c)
    \/ close(c)
    \/ getReadTransaction(c)
    \/ queryRead(c)
    \/ prepareReadStatement(c)
    \/ getWriteTransaction(c)
    \/ queryWrite(c)
    \/ onWriteTransaction(c)
    \/ \E t \in 1..Len(txs) : query(c, t)
    \/ \E t \in 1..Len(txs) : prepareStatement(c, t)
    \/ \E t \in 1..Len(txs) : transactionQuery(c, t)
    \/ \E t \in 1..Len(txs) : transactionCommit(c, t)
    \/ \E t \in 1..Len(txs) : transactionRollback(c, t)
    \/ \E t \in 1..Len(txs) : transactionPrepareStatement(c, t)

\* One caller that makes one call after the other, on the connection and on
\* the Transactions it was given, while the clock moves on
NextApi ==
    \/ Calls(1)
    \/ Callbacks(1)
    \/ \E ok \in BOOLEAN : transactionCallback(1, ok)
    \/ \E ok \in BOOLEAN : readTransactionCallback(ok)
    \/ tick
    \/ callIsConnected
    \/ callGetInactiveTime

SpecApi == Init /\ [][NextApi]_vars

\* every driver call calls back, with success or with an error, and every
\* handler of a settled promise runs
SpecLive ==
    /\ Spec
    /\ \A c \in Slots : WF_vars(Callbacks(c))
    /\ WF_vars(\E ok \in BOOLEAN : readTransactionCallback(ok))

TypeOK ==
    /\ database \in 0..Len(handles)
    /\ readTransactionPromise.st \in {"null", "pending", "resolved", "rejected"}
    /\ nCalls \in 0..MaxCalls
    /\ \A c \in Slots : calls[c].tx \in 0..Len(txs)
    /\ readTransaction \in 0..Len(txs)

----------------------------------------------------------------------------
\* app/utils/momentUtils.js.  A string is a sequence of characters, a format a
\* sequence of tokens ("YYYY", "MM", "DD", "HH", "h", "mm", "ss", "a" or a
\* literal character); <<>> is the empty string and an omitted format.

DATE_FORMAT == <<"YYYY", "-", "MM", "-", "DD">>

TIME_FORMAT == <<"HH", ":", "mm", ":", "ss">>

Digit == <<"0", "1", "2", "3", "4", "5", "6", "7", "8", "9">>

DigitChars == {Digit[i] : i \in 1..10}

ValueOf(ch) == CHOOSE n \in 0..9 : Digit[n + 1] = ch

\* the tokens that moment reads as a number, and the widest number each reads
NumberTokens == {"YYYY", "MM", "DD", "HH", "h", "mm", "ss"}

WidthOf(token) == IF token = "YYYY" THEN 4 ELSE 2

\* the field of a moment that a token sets or prints
FieldOf(token) ==
    CASE token = "YYYY" -> "year"
      [] token = "MM" -> "month"
      [] token = "DD" -> "day"
      [] token \in {"HH", "h"} -> "hour"
      [] token = "mm" -> "minute"
      [] OTHER -> "second"

Undefined == [kind |-> "undefined"]

\* what moment holds before it has read anything: -1 is a field not given
NoFields ==
    [year |-> -1, month |-> -1, day |-> -1, hour |-> -1, minute |-> -1, second |-> -1,
     meridiem |-> "none"]

RECURSIVE NumberOf(_)
NumberOf(chars) ==
    IF chars = <<>> THEN 0
    ELSE NumberOf(SubSeq(chars, 1, Len(chars) - 1)) * 10 + ValueOf(chars[Len(chars)])

\* the place of the first character of str that is in set, 0 when there is none
IndexOfAny(str, set) ==
    IF \E i \in 1..Len(str) : str[i] \in set
      THEN CHOOSE i \in 1..Len(str) : str[i] \in set /\ \A j \in 1..(i - 1) : str[j] \notin set
      ELSE 0

\* the length of the run of digits of str at place i, cut at width
RunLength(str, i, width) ==
    CHOOSE n \in 1..width :
        /\ \A k \in 0..(n - 1) : i + k <= Len(str) /\ str[i + k] \in DigitChars
        /\ n = width \/ i + n > Len(str) \/ str[i + n] \notin DigitChars

\* moment(str, format) without strict mode: every token of the format is
\* matched against what is left of the string, at the first place it matches;
\* a token that matches nowhere is passed over
RECURSIVE ParseTokens(_, _, _)
ParseTokens(tokens, str, fields) ==
    IF tokens = <<>> THEN fields
    ELSE LET token == Head(tokens)
             rest == Tail(tokens)
         IN CASE token \in NumberTokens ->
                   LET i == IndexOfAny(str, DigitChars) IN
                   IF i = 0 THEN ParseTokens(rest, str, fields)
                   ELSE LET n == RunLength(str, i, WidthOf(token))
                            v == NumberOf(SubSeq(str, i, i + n - 1))
                        IN ParseTokens(rest, SubSeq(str, i + n, Len(str)),
                                       [fields EXCEPT ![FieldOf(token)] = v])
              [] token = "a" ->
                   LET i == IndexOfAny(str, {"A", "P"}) IN
                   IF i = 0 THEN ParseTokens(rest, str, fields)
                   ELSE LET n == IF i < Len(str) /\ str[i + 1] = "M" THEN 2 ELSE 1
                        IN ParseTokens(rest, SubSeq(str, i + n, Len(str)),
                                       [fields EXCEPT !.meridiem = str[i]])
              [] OTHER ->
                   LET i == IndexOfAny(str, {token}) IN
                   IF i = 0 THEN ParseTokens(rest, str, fields)
                   ELSE ParseTokens(rest, SubSeq(str, i + 1, Len(str)), fields)

\* the hour of the day of an hour read with AM or PM
MeridiemHour(hour, meridiem) ==
    CASE meridiem = "P" /\ hour < 12 -> hour + 12
      [] meridiem = "A" /\ hour = 12 -> 0
      [] OTHER -> hour

IsLeapYear(y) == (y % 4 = 0 /\ y % 100 # 0) \/ y % 400 = 0

DaysInMonth(y, m) ==
    CASE m = 2 -> IF IsLeapYear(y) THEN 29 ELSE 28
      [] m \in {4, 6, 9, 11} -> 30
      [] OTHER -> 31

\* moment(str, format): the fields read, the time of day at 0 where not
\* given, and whether they make a date and a time
momentParse(str, format) ==
    LET f == ParseTokens(format, str, NoFields)
        hour == IF f.hour = -1 THEN 0 ELSE MeridiemHour(f.hour, f.meridiem)
        minute == IF f.minute = -1 THEN 0 ELSE f.minute
        second == IF f.second = -1 THEN 0 ELSE f.second
    IN [kind |-> "moment",
        year |-> f.year, month |-> f.month, day |-> f.day,
        hour |-> hour, minute |-> minute, second |-> second,
        valid |-> /\ f # NoFields
                  /\ f.month = -1 \/ f.month \in 1..12
                  /\ f.day = -1 \/ f.month = -1 \/ f.month \notin 1..12
                        \/ f.day \in 1..DaysInMonth(f.year, f.month)
                  /\ hour \in 0..23 /\ minute \in 0..59 /\ second \in 0..59]

Pad2(n) == <<Digit[((n \div 10) % 10) + 1], Digit[(n % 10) + 1]>>

Pad4(n) == <<Digit[((n \div 1000) % 10) + 1], Digit[((n \div 100) % 10) + 1]>> \o Pad2(n)

Unpadded(n) == IF n < 10 THEN <<Digit[n + 1]>> ELSE Pad2(n)

\* the hour of the 12-hour clock
Hour12(hour) == IF hour % 12 = 0 THEN 12 ELSE hour % 12

\* the text of one token for the fields m, the numbers padded or not
TokenText(token, m, padded) ==
    CASE token = "YYYY" -> Pad4(m.year)
      [] token = "h" -> IF padded THEN Pad2(Hour12(m.hour)) ELSE Unpadded(Hour12(m.hour))
      [] token = "a" -> IF m.hour < 12 THEN <<"A", "M">> ELSE <<"P", "M">>
      [] token \in NumberTokens ->
            IF padded THEN Pad2(m[FieldOf(token)]) ELSE Unpadded(m[FieldOf(token)])
      [] OTHER -> <<token>>

RECURSIVE TextOf(_, _, _)
TextOf(format, m, padded) ==
    IF format = <<>> THEN <<>>
    ELSE TokenText(Head(format), m, padded) \o TextOf(Tail(format), m, padded)

\* m.format(format)
momentFormat(m, format) ==
    IF m.valid THEN TextOf(format, m, TRUE) ELSE <<"Invalid date">>

\* variant: a string without a format is read as a date
parseTime_asDate(timeStr, format) ==
    IF timeStr = <<>> THEN Undefined
    ELSE momentParse(timeStr, IF format = <<>> THEN DATE_FORMAT ELSE format)

\* parseDate(dateStr, format) of a string
parseDate(dateStr, format) ==
    IF dateStr = <<>> THEN Undefined
    ELSE momentParse(dateStr, IF format = <<>> THEN DATE_FORMAT ELSE format)

\* parseTime(timeStr, format) of a string
parseTime(timeStr, format) ==
    IF timeStr = <<>> THEN Undefined
    ELSE momentParse(timeStr, IF format = <<>> THEN TIME_FORMAT ELSE format)

\* formatDate(date, format) of a moment, of a string or of undefined
formatDate(date, format) ==
    IF date.kind = "undefined" \/ (date.kind = "string" /\ date.chars = <<>>) THEN <<>>
    ELSE LET m == IF date.kind = "moment" THEN date ELSE parseDate(date.chars, <<>>)
         IN IF m.kind = "undefined" THEN <<>>
            ELSE momentFormat(m, IF format = <<>> THEN DATE_FORMAT ELSE format)

\* formatTime(time, format) of a moment, of a string or of undefined
formatTime(time, format) ==
    IF time.kind = "undefined" \/ (time.kind = "string" /\ time.chars = <<>>) THEN <<>>
    ELSE LET m == IF time.kind = "moment" THEN time ELSE parseTime(time.chars, <<>>)
         IN IF m.kind = "undefined" THEN <<>>
            ELSE momentFormat(m, IF format = <<>> THEN TIME_FORMAT ELSE format)

\* The dates and times the functions are applied to
FirstYear == 2015

LastYear == 2016

Dates ==
    {x \in {[year |-> y, month |-> m, day |-> d, hour |-> 0, minute |-> 0, second |-> 0] :
               y \in FirstYear..LastYear, m \in 1..12, d \in 1..31} :
        x.day <= DaysInMonth(x.year, x.month)}

Times ==
    {[year |-> 0, month |-> 0, day |-> 0, hour |-> h, minute |-> m, second |-> x] :
        h \in 0..23, m \in {0, 7, 56, 59}, x \in {0, 5, 43}}

DateFormats == {DATE_FORMAT, <<"DD", ".", "MM", ".", "YYYY">>, <<"MM", "/", "DD", "/", "YYYY">>}

TimeFormats == {TIME_FORMAT, <<"h", ":", "mm", ":", "ss", " ", "a">>}

\* a format without its seconds: "13:56" for HH:mm:ss, "1:56 PM" for h:mm:ss a
WithoutSeconds(format) ==
    IF format = TIME_FORMAT THEN <<"HH", ":", "mm">> ELSE <<"h", ":", "mm", " ", "a">>

\* a call of parseDate or parseTime about to be made: value written as chars
\* in the format given (format, or the default one when it is omitted)
MomentCall(kind, value, format, chars) ==
    [fn |-> "input", kind |-> kind, value |-> value, format |-> format, chars |-> chars,
     parsed |-> Undefined, out |-> <<>>]

MomentInputs ==
    {MomentCall("date", d, f, TextOf(f, d, p)) : d \in Dates, f \in DateFormats, p \in BOOLEAN}
    \cup {MomentCall("date", d, <<>>, TextOf(DATE_FORMAT, d, TRUE)) : d \in Dates}
    \cup {MomentCall("time", t, f, TextOf(f, t, f = TIME_FORMAT)) : t \in Times, f \in TimeFormats}
    \cup {MomentCall("time", t, <<>>, TextOf(TIME_FORMAT, t, TRUE)) : t \in Times}
    \cup {MomentCall("time", t, f, TextOf(WithoutSeconds(f), t, f = TIME_FORMAT)) :
             t \in {x \in Times : x.second = 0}, f \in TimeFormats}
    \cup {MomentCall("time", t, <<>>, TextOf(WithoutSeconds(TIME_FORMAT), t, TRUE)) :
             t \in {x \in Times : x.second = 0}}

InitMoment ==
    /\ database = 0
    /\ readTransactionPromise = NullPromise
    /\ txs = <<>>
    /\ handles = <<>>
    /\ calls = [c \in Slots |-> IdleCall]
    /\ nCalls = 0
    /\ now = 0
    /\ lastActive = 0
    /\ observed = [connected |-> FALSE, inactive |-> 0]
    /\ moment \in MomentInputs
    /\ options = ConstructedOptions
    /\ readTransaction = 0
    /\ keyCall = NoKeyCall

\* momentUtils touches nothing of a connection
MomentOnly ==
    UNCHANGED <<database, readTransactionPromise, txs, handles, calls, nCalls, now,
                lastActive, observed, options, readTransaction, keyCall>>

callParseDate ==
    /\ moment.fn = "input" /\ moment.kind = "date"
    /\ moment' = [moment EXCEPT !.fn = "parsed", !.parsed = parseDate(moment.chars, moment.format)]
    /\ MomentOnly

callParseTime ==
    /\ moment.fn = "input" /\ moment.kind = "time"
    /\ moment' = [moment EXCEPT !.fn = "parsed", !.parsed = parseTime(moment.chars, moment.format)]
    /\ MomentOnly

\* formatDate(parsed, 'YYYY-MM-DD')
callFormatDate ==
    /\ moment.fn = "parsed" /\ moment.kind = "date"
    /\ moment' = [moment EXCEPT !.fn = "formatted", !.out = formatDate(moment.parsed, DATE_FORMAT)]
    /\ MomentOnly

\* formatTime(parsed, 'HH:mm:ss')
callFormatTime ==
    /\ moment.fn = "parsed" /\ moment.kind = "time"
    /\ moment' = [moment EXCEPT !.fn = "formatted", !.out = formatTime(moment.parsed, TIME_FORMAT)]
    /\ MomentOnly

NextMoment ==
    \/ callParseDate
    \/ callParseTime
    \/ callFormatDate
    \/ callFormatTime

SpecMoment == InitMoment /\ [][NextMoment]_vars

----------------------------------------------------------------------------
\* src/unnamed/part_000: the Connection that keeps the read Transaction itself
\* in this.readTransaction.  Its open() is the open() above; so are the steps
\* of its close() after the rollback or the detach has been issued.

\* what a step of this Connection leaves alone
PrototypeFrame == UNCHANGED <<readTransactionPromise, now, observed, moment, options, keyCall>>

\* Connection.prototype.getReadTransaction
prototype_getReadTransaction(c) ==
    /\ CanCall(c)
    /\ nCalls' = nCalls + 1
    /\ updateLastActive
    /\ IF ~isConnected
         THEN /\ calls' = [calls EXCEPT ![c] =
                    Settled("getReadTransaction", 0, "rejected", "NotConnected", NoteAtCall)]
              /\ UNCHANGED txs
         ELSE IF readTransaction # 0
           THEN /\ calls' = [calls EXCEPT ![c] =
                      Settled("getReadTransaction", readTransaction, "resolved", "transaction", "none")]
                /\ UNCHANGED txs
           ELSE /\ txs' = Append(txs, NewTx("READ"))
                /\ calls' = [calls EXCEPT ![c] =
                      Pending("getReadTransaction", "readStart", Len(txs) + 1, "none", "none")]
    /\ UNCHANGED <<database, handles, readTransaction>>
    /\ PrototypeFrame

\* the driver calls back the database.transaction(ISOLATION_READ, cb) of call c
prototype_readTransactionCallback(c, ok) ==
    /\ calls[c].pc = "readStart"
    /\ LET t == calls[c].tx IN
       IF ok
         THEN /\ txs' = [txs EXCEPT ![t].st = "active"]
              /\ readTransaction' = t
              /\ calls' = [calls EXCEPT ![c] =
                    Settled("getReadTransaction", t, "resolved", "transaction", "none")]
         ELSE /\ txs' = [txs EXCEPT ![t].st = "failed"]
              /\ calls' = [calls EXCEPT ![c] =
                    Settled("getReadTransaction", 0, "rejected", "StartErr", "none")]
              /\ UNCHANGED readTransaction
    /\ UNCHANGED <<database, handles, nCalls, lastActive>>
    /\ PrototypeFrame

\* Connection.prototype.close
prototype_close(c) ==
    /\ CanCall(c)
    /\ nCalls' = nCalls + 1
    /\ updateLastActive
    /\ IF ~isConnected
         THEN /\ calls' = [calls EXCEPT ![c] =
                    Settled("close", 0, "rejected", "NotConnected", NoteAtCall)]
              /\ UNCHANGED txs
         ELSE IF readTransaction # 0
           THEN \* self.readTransaction.rollback()
                /\ txs' = [txs EXCEPT ![readTransaction].rollbacks = @ + 1]
                /\ calls' = [calls EXCEPT ![c] =
                      Pending("close", "closeRollback", readTransaction, "none", "cached")]
           ELSE \* Promise.resolve().then(...)
                /\ calls' = [calls EXCEPT ![c] = Pending("close", "closeDetach", 0, "none", "none")]
                /\ UNCHANGED txs
    /\ UNCHANGED <<database, handles, readTransaction>>
    /\ PrototypeFrame

NextPrototype ==
    \/ \E c \in Slots :
          \/ open(c)
          \/ prototype_getReadTransaction(c)
          \/ prototype_close(c)
          \/ closeThenDetach(c)
          \/ \E ok \in BOOLEAN :
                \/ attachCallback(c, ok)
                \/ prototype_readTransactionCallback(c, ok)
                \/ closeRollbackCallback(c, ok)
                \/ detachCallback(c, ok)

SpecPrototype == Init /\ [][NextPrototype]_vars

----------------------------------------------------------------------------
\* isValidKey, validKeyOrNull, parseKey, filterKeys.  A JavaScript value is a
\* record: t its type ("number", "NaN", "string", "boolean", "null",
\* "undefined", "array", and "error" for a thrown Error), n its number (1 and
\* 0 for true and false), s its characters, its elements or its message.

MaxLen == 3      \* longest array handed to filterKeys

JSNumber(n) == [t |-> "number", n |-> n, s |-> <<>>]

JSNaN == [t |-> "NaN", n |-> 0, s |-> <<>>]

JSString(chars) == [t |-> "string", n |-> 0, s |-> chars]

JSBoolean(b) == [t |-> "boolean", n |-> IF b THEN 1 ELSE 0, s |-> <<>>]

JSNull == [t |-> "null", n |-> 0, s |-> <<>>]

JSUndefined == [t |-> "undefined", n |-> 0, s |-> <<>>]

JSArray(elements) == [t |-> "array", n |-> 0, s |-> elements]

JSError(message) == [t |-> "error", n |-> 0, s |-> <<message>>]

\* chars without its leading and trailing blanks
RECURSIVE Trim(_)
Trim(chars) ==
    IF chars = <<>> THEN <<>>
    ELSE IF Head(chars) = " " THEN Trim(Tail(chars))
    ELSE IF chars[Len(chars)] = " " THEN Trim(SubSeq(chars, 1, Len(chars) - 1))
    ELSE chars

\* the number a string converts to: 0 when it is blank, its value when it is
\* a decimal integer with or without a sign, NaN otherwise
StringToNumber(chars) ==
    LET str == Trim(chars)
        digits == IF str # <<>> /\ Head(str) \in {"-", "+"} THEN Tail(str) ELSE str
    IN IF str = <<>> THEN JSNumber(0)
       ELSE IF digits # <<>> /\ \A i \in 1..Len(digits) : digits[i] \in DigitChars
         THEN JSNumber(IF Head(str) = "-" THEN 0 - NumberOf(digits) ELSE NumberOf(digits))
         ELSE JSNaN

\* Number(value)
Number(value) ==
    CASE value.t = "number" -> value
      [] value.t = "string" -> StringToNumber(value.s)
      [] value.t = "boolean" -> JSNumber(value.n)
      [] value.t = "null" -> JSNumber(0)
      [] value.t = "array" ->
            \* the array as a string: "" when empty, its element when it has one
            IF value.s = <<>> THEN JSNumber(0)
            ELSE IF Len(value.s) = 1 /\ value.s[1].t \in {"number", "string"}
              THEN (IF value.s[1].t = "number" THEN value.s[1] ELSE StringToNumber(value.s[1].s))
              ELSE JSNaN
      [] OTHER -> JSNaN

\* variant: zero is a key
isValidKey_zero(value) ==
    LET v == Number(value) IN v.t = "number" /\ v.n >= 0

\* return value > 0
isValidKey(value) ==
    LET v == Number(value) IN v.t = "number" /\ v.n > 0

validKeyOrNull(value) == IF isValidKey(value) THEN value ELSE JSNull

parseKey(value) ==
    LET v == Number(value) IN IF isValidKey(v) THEN v ELSE JSNumber(-1)

\* array.map(f) with f = Number
RECURSIVE MapNumber(_)
MapNumber(elements) ==
    IF elements = <<>> THEN <<>>
    ELSE <<Number(Head(elements))>> \o MapNumber(Tail(elements))

\* array.filter(f) with f = isValidKey
RECURSIVE FilterValid(_)
FilterValid(elements) ==
    IF elements = <<>> THEN <<>>
    ELSE (IF isValidKey(Head(elements)) THEN <<Head(elements)>> ELSE <<>>)
            \o FilterValid(Tail(elements))

\* _.uniq(array): each value kept where it occurs first
RECURSIVE uniq(_)
uniq(elements) ==
    IF elements = <<>> THEN <<>>
    ELSE LET front == SubSeq(elements, 1, Len(elements) - 1)
             last == elements[Len(elements)]
         IN IF \E i \in 1..Len(front) : front[i] = last
              THEN uniq(front)
              ELSE uniq(front) \o <<last>>

filterKeys(array) ==
    IF array.t # "array" THEN JSError("Not an array")
    ELSE JSArray(uniq(FilterValid(MapNumber(array.s))))

\* the values handed to the functions as elements and as arguments
Elements ==
    {JSNumber(-1), JSNumber(0), JSNumber(1), JSNumber(2), JSNaN,
     JSString(<<"1">>), JSString(<<" ", "2">>), JSString(<<"-", "1">>), JSString(<<"0">>),
     JSString(<<"a">>), JSString(<<>>), JSBoolean(TRUE), JSNull, JSUndefined}

RECURSIVE SeqsUpTo(_, _)
SeqsUpTo(set, n) ==
    IF n = 0 THEN {<<>>}
    ELSE LET shorter == SeqsUpTo(set, n - 1)
         IN shorter \cup {Append(q, x) : q \in {p \in shorter : Len(p) = n - 1}, x \in set}

Arguments ==
    {JSArray(q) : q \in SeqsUpTo(Elements, MaxLen)}
       \cup Elements \cup {JSArray(<<JSNumber(2)>>), JSArray(<<JSString(<<"1">>)>>)}

\* a call of fn about to be made with argument arg
KeyCall(fn, arg) == [fn |-> fn, step |-> "call", arg |-> arg, out |-> JSUndefined, again |-> JSUndefined]

InitKeys ==
    /\ database = 0
    /\ readTransactionPromise = NullPromise
    /\ txs = <<>>
    /\ handles = <<>>
    /\ calls = [c \in Slots |-> IdleCall]
    /\ nCalls = 0
    /\ now = 0
    /\ lastActive = 0
    /\ observed = [connected |-> FALSE, inactive |-> 0]
    /\ moment = NoMoment
    /\ options = ConstructedOptions
    /\ readTransaction = 0
    /\ keyCall \in {KeyCall("filterKeys", a) : a \in Arguments}
                      \cup {KeyCall("parseKey", a) : a \in Elements \cup {JSArray(<<JSNumber(2)>>)}}
                      \cup {KeyCall("validKeyOrNull", a) : a \in Elements}

\* the functions touch nothing of a connection
KeysOnly ==
    UNCHANGED <<database, readTransactionPromise, txs, handles, calls, nCalls, now,
                lastActive, observed, moment, options, readTransaction>>

callFilterKeys ==
    /\ keyCall.fn = "filterKeys" /\ keyCall.step = "call"
    /\ keyCall' = [keyCall EXCEPT !.step = "returned", !.out = filterKeys(keyCall.arg)]
    /\ KeysOnly

\* filterKeys applied to the array it returned
callFilterKeysAgain ==
    /\ keyCall.fn = "filterKeys" /\ keyCall.step = "returned" /\ keyCall.out.t = "array"
    /\ keyCall' = [keyCall EXCEPT !.step = "returnedAgain", !.again = filterKeys(keyCall.out)]
    /\ KeysOnly

callParseKey ==
    /\ keyCall.fn = "parseKey" /\ keyCall.step = "call"
    /\ keyCall' = [keyCall EXCEPT !.step = "returned", !.out = parseKey(keyCall.arg)]
    /\ KeysOnly

callValidKeyOrNull ==
    /\ keyCall.fn = "validKeyOrNull" /\ keyCall.step = "call"
    /\ keyCall' = [keyCall EXCEPT !.step = "returned", !.out = validKeyOrNull(keyCall.arg)]
    /\ KeysOnly

NextKeys ==
    \/ callFilterKeys
    \/ callFilterKeysAgain
    \/ callParseKey
    \/ callValidKeyOrNull

SpecKeys == InitKeys /\ [][NextKeys]_vars

----------------------------------------------------------------------------
\* Properties

ReadTxs == {t \in 1..Len(txs) : txs[t].iso = "READ"}

WriteTxs == {t \in 1..Len(txs) : txs[t].iso = "WRITE"}

WrapperOps == {"queryWrite", "onWriteTransaction"}

\* what a write wrapper resolves with
ResultOf(op) == IF op = "queryWrite" THEN "rows" ELSE "actionResult"

\* the error of the first failure met by a write wrapper
ErrorOf(failure) ==
    CASE failure = "query" -> "QueryErr"
      [] failure = "commit" -> "CommitErr"
      [] failure \in {"actionRejected", "actionThrew"} -> "ActionErr"
      [] OTHER -> "none"

\* C1: when the first getReadTransaction() finds the connection connected,
\* exactly one READ transaction is started however many calls follow, and once
\* the driver has accepted the start every getReadTransaction() call resolves to
\* that one Transaction.
C1_ReadTransactionStartedOnce ==
    /\ Cardinality(ReadTxs) <= 1
    /\ (readTransactionPromise.st # "null" /\ readTransactionPromise.err # "NotConnected")
          => Cardinality(ReadTxs) = 1
    /\ readTransactionPromise.st \in {"pending", "resolved"}
          => ReadTxs = {readTransactionPromise.tx}
    /\ readTransactionPromise.st = "resolved"
          => \A c \in Slots :
                (calls[c].op = "getReadTransaction" /\ calls[c].pc = "done")
                   => /\ calls[c].out = "resolved"
                      /\ calls[c].val = "transaction"
                      /\ calls[c].tx = readTransactionPromise.tx
                      /\ calls[c].tx \in ReadTxs

\* two getReadTransaction() calls on the connected instance resolved to the one
\* READ transaction
C1_Witness ==
    /\ Cardinality(ReadTxs) = 1
    /\ \A c \in Slots :
          /\ calls[c].op = "getReadTransaction"
          /\ calls[c].pc = "done"
          /\ calls[c].note = "none"
          /\ calls[c].out = "resolved"
          /\ calls[c].tx \in ReadTxs

\* C2: a write wrapper whose query/action and commit all succeeded has invoked
\* commit once on its transaction, after the query/action completed, has not
\* invoked rollback on it, and resolves with the rows (the action's result).
C2_WriteSuccessCommitsOnce ==
    \A c \in Slots :
        (calls[c].op \in WrapperOps /\ calls[c].tx # 0) =>
            LET t == txs[calls[c].tx] IN
            /\ calls[c].pc \in {"start", "query", "action"} => t.commits = 0
            /\ (calls[c].pc = "commit" /\ calls[c].note = "none")
                  => (t.commits = 1 /\ t.rollbacks = 0)
            /\ (calls[c].pc = "done" /\ calls[c].note = "none")
                  => /\ calls[c].out = "resolved"
                     /\ calls[c].val = ResultOf(calls[c].op)
                     /\ t.commits = 1
                     /\ t.rollbacks = 0
                     /\ t.st = "committed"

\* a queryWrite() and an onWriteTransaction() have both committed and resolved
C2_Witness ==
    /\ calls[1].op = "queryWrite" /\ calls[1].pc = "done" /\ calls[1].out = "resolved"
    /\ calls[1].tx # 0 /\ calls[1].val = "rows"
    /\ calls[2].op = "onWriteTransaction" /\ calls[2].pc = "done" /\ calls[2].out = "resolved"
    /\ calls[2].tx # 0 /\ calls[2].val = "actionResult"

\* C3: a queryWrite() whose query failed has invoked rollback once on its
\* transaction and never commit, and its promise is rejected.
C3_QueryFailureRollsBackOnce ==
    \A c \in Slots :
        (calls[c].op = "queryWrite" /\ calls[c].note = "query") =>
            LET t == txs[calls[c].tx] IN
            /\ calls[c].pc \in {"rollback", "done"}
            /\ t.rollbacks = 1
            /\ t.commits = 0
            /\ calls[c].pc = "done" => calls[c].out = "rejected"

\* a queryWrite() whose query failed has settled
C3_Witness ==
    \E c \in Slots :
        /\ calls[c].op = "queryWrite" /\ calls[c].note = "query"
        /\ calls[c].pc = "done" /\ calls[c].out = "rejected"
        /\ txs[calls[c].tx].rollbacks = 1

\* C4: a write wrapper that failed after its transaction was created rejects
\* with the first failure (the query's, the action's or the commit's error),
\* whether its rollback succeeded or failed.
C4_OriginalErrorNotMasked ==
    \A c \in Slots :
        ( /\ calls[c].op \in WrapperOps
          /\ calls[c].pc = "done"
          /\ calls[c].note \in {"query", "commit", "actionRejected", "actionThrew"} )
        => /\ calls[c].out = "rejected"
           /\ calls[c].val = ErrorOf(calls[c].note)

\* a write wrapper has rejected with the query's error (resp. the commit's
\* error) although its rollback failed
C4_Witness ==
    /\ calls[1].op = "queryWrite" /\ calls[1].pc = "done" /\ calls[1].note = "query"
    /\ txs[calls[1].tx].rollbacks = 1 /\ txs[calls[1].tx].st = "active"
    /\ calls[1].val = "QueryErr"
    /\ calls[2].op = "onWriteTransaction" /\ calls[2].pc = "done" /\ calls[2].note = "commit"
    /\ txs[calls[2].tx].rollbacks = 1 /\ txs[calls[2].tx].st = "active"
    /\ calls[2].val = "CommitErr"

\* C5: an onWriteTransaction() whose action failed, by rejecting or by
\* throwing, has invoked rollback once and never commit on its transaction and
\* is rejected; none settles with a started transaction that saw neither.
C5_ActionFailureRollsBack ==
    \A c \in Slots :
        (calls[c].op = "onWriteTransaction" /\ calls[c].pc = "done" /\ calls[c].tx # 0) =>
            LET t == txs[calls[c].tx] IN
            /\ calls[c].note \in {"actionRejected", "actionThrew"}
                  => (t.rollbacks = 1 /\ t.commits = 0 /\ calls[c].out = "rejected")
            /\ t.st # "failed" => t.commits + t.rollbacks >= 1

\* the call recorded in slot c by this step is a call of op
NewCall(c, op) ==
    /\ FirstFree(c)
    /\ nCalls' = nCalls + 1
    /\ calls'[c].op = op

\* C6: a close() called with a read transaction promise present has, by the
\* time it invokes detach, invoked rollback on the read transaction and seen
\* that rollback succeed; commit is never invoked on a read transaction.
C6_CloseRollsBackBeforeDetach ==
    /\ \A t \in ReadTxs : txs[t].commits = 0
    /\ \A c \in Slots :
          (calls[c].op = "close" /\ calls[c].note = "cached") =>
              /\ calls[c].pc \in {"closeCheck", "closeWait", "closeRollback", "detach", "done", "hung"}
              /\ calls[c].pc \in {"closeCheck", "closeWait", "closeRollback"}
                    => calls[c].h = 0
              /\ calls[c].pc \in {"detach", "done"}
                    => /\ calls[c].h # 0
                       /\ calls[c].tx # 0
                       /\ calls[c].tx = readTransactionPromise.tx
                       /\ txs[calls[c].tx].iso = "READ"
                       /\ txs[calls[c].tx].rollbacks >= 1
                       /\ txs[calls[c].tx].st = "rolledback"

\* a close() called with the read transaction cached has rolled it back,
\* detached and resolved
C6_Witness ==
    \E c \in Slots :
        /\ calls[c].op = "close" /\ calls[c].note = "cached"
        /\ calls[c].pc = "done" /\ calls[c].out = "resolved"
        /\ txs[calls[c].tx].st = "rolledback"
        /\ handles[calls[c].h].detaches = 1

\* no start of a read transaction is pending or was refused, and a read
\* transaction that was started has been rolled back by close()
ReadTransactionSettledByClose ==
    \/ readTransactionPromise.st = "null"
    \/ readTransactionPromise.st = "rejected" /\ readTransactionPromise.err = "NotConnected"
    \/ readTransactionPromise.st = "resolved" /\ txs[readTransactionPromise.tx].st = "rolledback"

\* C7: a getReadTransaction, getWriteTransaction, queryRead, queryWrite,
\* onWriteTransaction or prepareReadStatement call made while the connection has
\* no handle (before the first open(), or after a close() that rolled back the
\* read transaction and detached) works on no transaction, issues no driver
\* call and rejects with the not-connected error.
C7_DisconnectedCallsFailFast ==
    \A c \in Slots :
        ( /\ calls[c].note = "disconnected"
          /\ ReadTransactionSettledByClose
          /\ calls[c].op \in {"getReadTransaction", "getWriteTransaction", "queryRead",
                              "queryWrite", "onWriteTransaction", "prepareReadStatement"} )
        => /\ calls[c].tx = 0
           /\ calls[c].pc \in {"readPromise", "done"}
           /\ calls[c].pc = "done"
                 => (calls[c].out = "rejected" /\ calls[c].val = "NotConnected")

\* the connection is in its second or a later epoch: every earlier handle
\* has been detached
LaterEpoch ==
    /\ database > 1
    /\ \A h \in 1..(database - 1) : handles[h].st = "detached"

\* C8: after open, ..., close, open, where the close() rolled back the read
\* transaction of the earlier epoch, a getReadTransaction()/queryRead() that
\* finds no READ transaction started on the current handle starts one, and
\* getReadTransaction() on the connected connection does not resolve to a
\* Transaction that a close() has rolled back.
C8_NewReadTransactionPerEpoch ==
    [][ \A c \in Slots :
          /\ ( /\ NewCall(c, "getReadTransaction") \/ NewCall(c, "queryRead")
               /\ LaterEpoch
               /\ readTransactionPromise.st = "resolved"
               /\ txs[readTransactionPromise.tx].st = "rolledback"
               /\ ~ \E t \in ReadTxs : txs[t].h = database )
             => \E t \in 1..Len(txs') : txs'[t].iso = "READ" /\ txs'[t].h = database
          /\ ( /\ calls[c].op = "getReadTransaction"
               /\ calls[c].pc = "readPromise"
               /\ calls[c].note = "none"
               /\ LaterEpoch
               /\ calls'[c].pc = "done"
               /\ calls'[c].out = "resolved" )
             => txs[calls'[c].tx].st # "rolledback"
      ]_vars

\* C9: close() called without a handle rejects with the not-connected error
\* and changes neither the handle, the read transaction promise, the
\* transactions nor the handles; a close() resolves only in a step that clears
\* the handle, and only the callback of an open()/create() sets it again.
C9_CloseWhenDisconnected ==
    [][ \A c \in Slots :
          /\ (NewCall(c, "close") /\ database = 0)
             => /\ calls'[c].pc = "done"
                /\ calls'[c].out = "rejected"
                /\ calls'[c].val = "NotConnected"
                /\ UNCHANGED <<database, readTransactionPromise, txs, handles>>
          /\ ( /\ calls[c].op = "close"
               /\ calls[c].pc \notin {"done", "hung"}
               /\ calls'[c].pc = "done"
               /\ calls'[c].out = "resolved" )
             => database' = 0
          /\ (database = 0 /\ database' # 0)
             => \E d \in Slots : calls[d].pc = "attach" /\ calls'[d].pc = "done"
      ]_vars

\* a close() has resolved and the next close() was rejected as not connected
C9_Witness ==
    /\ database = 0
    /\ calls[1].op = "close" /\ calls[1].pc = "done" /\ calls[1].out = "resolved"
    /\ calls[2].op = "close" /\ calls[2].pc = "done" /\ calls[2].out = "rejected"
    /\ calls[2].val = "NotConnected" /\ calls[2].note = "disconnected"

\* C10: every getWriteTransaction() on a connected connection starts one more
\* driver transaction, of isolation WRITE, for itself; the calls that resolve
\* hold pairwise distinct transactions, none the read transaction; a call whose
\* start fails rejects with the driver's error and changes no other call.
C10_WriteTransactionsNeverShared ==
    /\ [](\A c \in Slots :
            (calls[c].op = "getWriteTransaction" /\ calls[c].pc = "done") =>
                /\ calls[c].out = "resolved"
                      => /\ calls[c].val = "transaction"
                         /\ calls[c].tx \in WriteTxs
                         /\ calls[c].tx # readTransactionPromise.tx
                         /\ \A d \in Slots \ {c} : calls[d].tx # calls[c].tx
                /\ calls[c].note = "start"
                      => (calls[c].out = "rejected" /\ calls[c].val = "StartErr"))
    /\ [][ \A c \in Slots :
             /\ (NewCall(c, "getWriteTransaction") /\ database # 0)
                => /\ Len(txs') = Len(txs) + 1
                   /\ txs'[Len(txs')].iso = "WRITE"
                   /\ calls'[c].tx = Len(txs')
                   /\ \A t \in 1..Len(txs) : txs'[t] = txs[t]
             /\ ( /\ calls[c].op = "getWriteTransaction"
                  /\ calls[c].pc = "start"
                  /\ calls'[c].out = "rejected" )
                => /\ calls'[c].val = "StartErr"
                   /\ \A d \in Slots \ {c} : calls'[d] = calls[d]
                   /\ UNCHANGED <<database, readTransactionPromise>>
         ]_vars

\* two getWriteTransaction() calls resolved to two transactions while the read
\* transaction is cached
C10_Witness ==
    /\ readTransactionPromise.st = "resolved"
    /\ \A c \in Slots :
          /\ calls[c].op = "getWriteTransaction"
          /\ calls[c].pc = "done"
          /\ calls[c].out = "resolved"
    /\ calls[1].tx # calls[2].tx
    /\ Cardinality(WriteTxs) = 2

\* C11: commit is never invoked on a READ transaction; rollback is invoked on
\* one only by the step of close() that follows its wait on the read
\* transaction promise; no step of a queryRead() or prepareReadStatement() call,
\* whether its query/prepare succeeds or fails, invokes commit or rollback on
\* any transaction.
C11_ReadTransactionOnlyRolledBackByClose ==
    /\ [](\A t \in ReadTxs : txs[t].commits = 0)
    /\ [][ /\ \A t \in ReadTxs :
               txs'[t].rollbacks # txs[t].rollbacks
                  => \E c \in Slots : /\ calls[c].op = "close"
                                      /\ calls[c].pc = "closeWait"
                                      /\ calls'[c].pc = "closeRollback"
                                      /\ calls'[c].tx = t
           /\ \A c \in Slots :
               ( /\ calls[c].op \in {"queryRead", "prepareReadStatement"}
                 /\ calls[c].pc \in {"readPromise", "query", "prepare"}
                 /\ calls'[c] # calls[c] )
               => \A t \in 1..Len(txs) : /\ txs'[t].commits = txs[t].commits
                                         /\ txs'[t].rollbacks = txs[t].rollbacks
      ]_vars

\* a queryRead() has resolved and another has failed on the read transaction,
\* which is still active and has seen neither commit nor rollback
C11_Witness ==
    /\ readTransactionPromise.st = "resolved"
    /\ calls[1].op = "queryRead" /\ calls[1].pc = "done" /\ calls[1].out = "resolved"
    /\ calls[2].op = "queryRead" /\ calls[2].pc = "done" /\ calls[2].val = "QueryErr"
    /\ calls[1].tx = readTransactionPromise.tx /\ calls[2].tx = readTransactionPromise.tx
    /\ txs[readTransactionPromise.tx].st = "active"
    /\ txs[readTransactionPromise.tx].commits = 0
    /\ txs[readTransactionPromise.tx].rollbacks = 0

\* C12: when every driver call calls back, the promise returned by every call
\* of open, create, close, getReadTransaction, getWriteTransaction, queryRead,
\* queryWrite, onWriteTransaction and prepareReadStatement is eventually
\* resolved or rejected, also when a driver call made for it fails.
C12_EveryOperationSettles ==
    \A c \in Slots :
        (calls[c].pc \notin {"idle", "done"}) ~> (calls[c].pc = "done")

\* C13: a call of commit(), rollback(), query() or prepareStatement() made on
\* a Transaction after the driver has confirmed its commit or its rollback is
\* rejected.
C13_FinalizedTransactionRejects ==
    \A c \in Slots :
        ( /\ calls[c].op \in TransactionOps
          /\ calls[c].note = "finalized"
          /\ calls[c].pc = "done" )
        => calls[c].out = "rejected"

\* C14: every step in which a method of Connection or of Transaction is
\* entered, also one that then fails, and every step that issues a transaction
\* start, a query, a prepare, a commit or a rollback sets lastActive to the
\* current time; detach is issued only by a close() that was entered, and so
\* stamped, before; lastActive never goes back.
C14_EntryPointsStampFirst ==
    [][ /\ nCalls' # nCalls => lastActive' = now
        /\ (\E c \in Slots : calls[c].pc # "attach" /\ calls'[c].pc = "attach")
              => lastActive' = now
        /\ Len(txs') # Len(txs) => lastActive' = now
        /\ (\E t \in 1..Len(txs) : \/ txs'[t].commits # txs[t].commits
                                    \/ txs'[t].rollbacks # txs[t].rollbacks)
              => lastActive' = now
        /\ (\E c \in Slots : /\ calls'[c].pc \in {"query", "prepare", "transaction"}
                              /\ calls'[c].pc # calls[c].pc)
              => lastActive' = now
        /\ (\E h \in 1..Len(handles) : handles'[h].detaches # handles[h].detaches)
              => \E c \in Slots : /\ calls[c].op = "close"
                                  /\ calls[c].pc \in {"closeDetach", "closeRollback"}
        /\ lastActive' >= lastActive
      ]_vars

\* the connection was seen idle for MaxTime ticks and then a close() that was
\* rejected as not connected stamped it
C14_Witness ==
    /\ observed.inactive = MaxTime
    /\ now = MaxTime
    /\ lastActive = MaxTime
    /\ calls[1].op = "close" /\ calls[1].pc = "done" /\ calls[1].val = "NotConnected"

\* C15: getInactiveTime() returns now - lastActive, which is never negative,
\* does not decrease in a step that leaves lastActive alone and is 0 after a
\* step in which a method is entered; a step of isConnected() or
\* getInactiveTime() changes nothing of the connection, the clock, the driver's
\* transactions and handles or the calls in flight.
C15_InactiveTimeGrowsUntilStamped ==
    /\ [](getInactiveTime >= 0 /\ observed.inactive >= 0)
    /\ [][ /\ observed' # observed
                 => UNCHANGED <<database, readTransactionPromise, txs, handles, calls, nCalls,
                                now, lastActive>>
           /\ observed'.inactive # observed.inactive => observed'.inactive = now - lastActive
           /\ observed'.connected # observed.connected => observed'.connected = (database # 0)
           /\ lastActive' = lastActive => getInactiveTime' >= getInactiveTime
           /\ nCalls' # nCalls => getInactiveTime' = 0
         ]_vars

\* the connection was seen connected, then seen idle for one tick, and a call
\* made at that tick stamped it
C15_Witness ==
    /\ observed.connected
    /\ observed.inactive = 1
    /\ lastActive = 1
    /\ now = 2
    /\ getInactiveTime = 1

\* C16: two queryWrite()/onWriteTransaction() calls never work on the same
\* transaction; a step that leaves a wrapper call as it is leaves its
\* transaction as it is, so commit and rollback reach a transaction only from
\* the call that created it; and a wrapper resolves with its result exactly
\* when its own query/action and commit succeeded, and otherwise rejects.
C16_ConcurrentWritesIndependent ==
    /\ [](\A c, d \in Slots :
            ( /\ c # d
              /\ calls[c].op \in WrapperOps /\ calls[c].tx # 0
              /\ calls[d].op \in WrapperOps /\ calls[d].tx # 0 )
            => calls[c].tx # calls[d].tx)
    /\ [](\A c \in Slots :
            (calls[c].op \in WrapperOps /\ calls[c].tx # 0 /\ calls[c].pc = "done")
            => /\ calls[c].out = IF calls[c].note = "none" THEN "resolved" ELSE "rejected"
               /\ txs[calls[c].tx].commits <= 1
               /\ txs[calls[c].tx].rollbacks <= 1)
    /\ [][ /\ \A c \in Slots :
                (calls[c].op \in WrapperOps /\ calls[c].tx # 0 /\ calls'[c] = calls[c])
                => txs'[calls[c].tx] = txs[calls[c].tx]
           /\ \A t \in WriteTxs :
                txs'[t] # txs[t]
                => \E c \in Slots : calls[c].tx = t /\ calls'[c] # calls[c] /\ calls'[c].tx = t
         ]_vars

\* a queryWrite() has failed and rolled its transaction back while a
\* queryWrite() that started before it is still committing its own
C16_Witness ==
    /\ calls[1].op = "queryWrite" /\ calls[1].pc = "commit"
    /\ calls[2].op = "queryWrite" /\ calls[2].pc = "done" /\ calls[2].note = "query"
    /\ calls[1].tx < calls[2].tx
    /\ txs[calls[2].tx].st = "rolledback" /\ txs[calls[2].tx].commits = 0
    /\ txs[calls[1].tx].commits = 1 /\ txs[calls[1].tx].rollbacks = 0

\* C17: when the driver accepts the attach/create of an open()/create(), the
\* call resolves with the connection and the new handle is stored; when it
\* refuses, the call rejects with the driver's error and the handle and the
\* handles are left as they were; the handle is null as long as no
\* open()/create() has succeeded, and a stored handle is cleared only by the
\* detach callback of a close() that resolves.
C17_OpenStoresHandle ==
    /\ [](Len(handles) = 0 => ~isConnected)
    /\ [][ /\ \A c \in Slots :
                (calls[c].pc = "attach" /\ calls'[c].pc = "done")
                => IF calls'[c].out = "resolved"
                     THEN /\ calls'[c].val = "connection"
                          /\ Len(handles') = Len(handles) + 1
                          /\ database' = Len(handles')
                          /\ handles'[database'].st = "attached"
                     ELSE /\ calls'[c].out = "rejected"
                          /\ calls'[c].val = "AttachErr"
                          /\ UNCHANGED <<database, handles>>
           /\ (database # 0 /\ database' = 0)
                => \E c \in Slots : /\ calls[c].op = "close"
                                    /\ calls[c].pc = "detach"
                                    /\ calls'[c].out = "resolved"
         ]_vars

\* an open() has resolved and the connection stays connected although a
\* later open() was refused
C17_Witness ==
    /\ calls[1].op = "open" /\ calls[1].pc = "done" /\ calls[1].out = "resolved"
    /\ calls[2].op = "open" /\ calls[2].pc = "done" /\ calls[2].val = "AttachErr"
    /\ database = 1
    /\ Len(handles) = 1

\* C19: two close() calls in flight at the same time have not both invoked
\* rollback on the same read transaction, and have not both invoked detach on
\* the same handle.
C19_ConcurrentCloseCleansUpOnce ==
    \A c, d \in Slots :
        ( /\ c # d
          /\ calls[c].op = "close" /\ calls[c].pc \in {"closeRollback", "detach"}
          /\ calls[d].op = "close" /\ calls[d].pc \in {"closeRollback", "detach"} )
        => /\ ~(calls[c].tx # 0 /\ calls[c].tx = calls[d].tx)
           /\ ~(calls[c].pc = "detach" /\ calls[d].pc = "detach" /\ calls[c].h = calls[d].h)

\* C20: in the step in which a close() resolves, every READ transaction that
\* the driver has started on the handle it detached has had rollback invoked
\* on it, and the read transaction promise does not hold a Transaction that is
\* active on that handle.
C20_NoReadTransactionSurvivesClose ==
    [][ \A c \in Slots :
          ( /\ calls[c].op = "close"
            /\ calls[c].pc = "detach"
            /\ calls'[c].pc = "done"
            /\ calls'[c].out = "resolved" )
          => /\ \A t \in ReadTxs :
                   (txs[t].h = calls[c].h /\ txs[t].st = "active") => txs[t].rollbacks >= 1
             /\ ~ ( /\ readTransactionPromise'.st = "resolved"
                    /\ txs'[readTransactionPromise'.tx].h = calls[c].h
                    /\ txs'[readTransactionPromise'.tx].st = "active" )
      ]_vars

\* C18: a date written in YYYY-MM-DD, DD.MM.YYYY or MM/DD/YYYY, with or
\* without leading zeros, and parsed by parseDate with that format (or with
\* none for YYYY-MM-DD) is formatted by formatDate as its YYYY-MM-DD text; a
\* time written in HH:mm:ss or h:mm:ss AM/PM, with or without its seconds, and
\* parsed by parseTime is formatted by formatTime as its 24-hour HH:mm:ss text.
C18_ParseFormatRoundTrip ==
    /\ moment.fn = "parsed" => (moment.parsed.kind = "moment" /\ moment.parsed.valid)
    /\ (moment.fn = "formatted" /\ moment.kind = "date")
          => moment.out = Pad4(moment.value.year) \o <<"-">> \o Pad2(moment.value.month)
                            \o <<"-">> \o Pad2(moment.value.day)
    /\ (moment.fn = "formatted" /\ moment.kind = "time")
          => moment.out = Pad2(moment.value.hour) \o <<":">> \o Pad2(moment.value.minute)
                            \o <<":">> \o Pad2(moment.value.second)

\* "12:56 AM", read with h:mm:ss a, has been formatted as 00:56:00
C18_Witness ==
    /\ moment.fn = "formatted"
    /\ moment.chars = <<"1", "2", ":", "5", "6", " ", "A", "M">>
    /\ moment.out = <<"0", "0", ":", "5", "6", ":", "0", "0">>

\* C21: a getReadTransaction() made on a connected connection whose earlier
\* read transaction request was rejected (made without a handle, or refused by
\* the driver), and on whose handle no READ transaction has been started
\* successfully, issues a READ transaction start on the handle.
C21_FailedReadRequestNotRemembered ==
    [][ \A c \in Slots :
          ( /\ NewCall(c, "getReadTransaction")
            /\ isConnected
            /\ readTransactionPromise.st = "rejected"
            /\ \A t \in ReadTxs : txs[t].h = database => txs[t].st = "failed" )
          => /\ Len(txs') = Len(txs) + 1
             /\ txs'[Len(txs')].iso = "READ"
             /\ txs'[Len(txs')].h = database
      ]_vars

\* C22: this.database changes only to a new driver handle, in the step where
\* the attach of an open()/create() calls back without error, and to null, in
\* the step where the detach of a close() calls back without error; a refused
\* attach rejects and leaves it as it was, a refused detach rejects close()
\* with the detach error and leaves it as it was (a connected connection stays
\* connected), and this.options keeps the value the constructor gave it.
C22_HandleTransitions ==
    /\ [](options = ConstructedOptions)
    /\ [][ /\ database' # database
                => \/ \E c \in Slots :
                        /\ calls[c].op = "open" /\ calls[c].pc = "attach"
                        /\ calls'[c].pc = "done" /\ calls'[c].out = "resolved"
                        /\ Len(handles') = Len(handles) + 1
                        /\ database' = Len(handles')
                   \/ \E c \in Slots :
                        /\ calls[c].op = "close" /\ calls[c].pc = "detach"
                        /\ calls'[c].pc = "done" /\ calls'[c].out = "resolved"
                        /\ database' = 0
           /\ \A c \in Slots :
                (calls[c].pc = "detach" /\ calls'[c].pc = "done" /\ calls'[c].out = "rejected")
                   => /\ calls'[c].val = "DetachErr"
                      /\ database' = database
                      /\ isConnected => database' # 0
           /\ \A c \in Slots :
                (calls[c].pc = "attach" /\ calls'[c].pc = "done" /\ calls'[c].out = "rejected")
                   => database' = database
           /\ options' = options
      ]_vars

\* a close() has been rejected with the detach error and the connection still
\* has its handle
C22_Witness ==
    \E c \in Slots :
        /\ calls[c].op = "close"
        /\ calls[c].pc = "done"
        /\ calls[c].out = "rejected"
        /\ calls[c].val = "DetachErr"
        /\ isConnected
        /\ handles[database].st = "attached"

\* C23: in src/unnamed/part_000, on every handle at most one READ transaction
\* start is issued that the driver does not refuse (the connection never holds
\* more than one started read transaction), and all getReadTransaction() calls
\* made on a handle resolve to the same Transaction.
C23_PrototypeReadTransactionStartedOnce ==
    /\ \A h \in 1..Len(handles) :
          Cardinality({t \in ReadTxs : txs[t].h = h /\ txs[t].st # "failed"}) <= 1
    /\ \A c, d \in Slots :
          ( /\ calls[c].op = "getReadTransaction" /\ calls[d].op = "getReadTransaction"
            /\ calls[c].out = "resolved" /\ calls[d].out = "resolved"
            /\ txs[calls[c].tx].h = txs[calls[d].tx].h )
          => calls[c].tx = calls[d].tx

\* C24: this.readTransactionPromise is null until the first call of
\* getReadTransaction(), queryRead() or prepareReadStatement(), which assigns
\* it; after that no step assigns it again or resets it: the only change is
\* the promise it holds settling, resolved with the Transaction it started
\* or rejected.
C24_ReadTransactionPromiseWriteOnce ==
    [][ /\ readTransactionPromise' # readTransactionPromise
             => \/ /\ readTransactionPromise.st = "null"
                   /\ readTransactionPromise'.st \in {"pending", "rejected"}
                   /\ \E c \in Slots :
                         \/ NewCall(c, "getReadTransaction")
                         \/ NewCall(c, "queryRead")
                         \/ NewCall(c, "prepareReadStatement")
                \/ /\ readTransactionPromise.st = "pending"
                   /\ readTransactionPromise'.st \in {"resolved", "rejected"}
                   /\ readTransactionPromise'.st = "resolved"
                         => readTransactionPromise'.tx = readTransactionPromise.tx
                   /\ calls' = calls
        /\ \A c \in Slots :
              ( /\ readTransactionPromise.st = "null"
                /\ \/ NewCall(c, "getReadTransaction")
                   \/ NewCall(c, "queryRead")
                   \/ NewCall(c, "prepareReadStatement") )
              => readTransactionPromise'.st # "null"
        /\ \A c \in Slots :
              (readTransactionPromise.st = "null" /\ calls[c].pc # "idle")
                 => calls[c].op \notin {"getReadTransaction", "queryRead", "prepareReadStatement"}
      ]_vars

\* the promise of a read transaction started on the first handle is still
\* held after a close() has detached that handle and an open() has attached
\* the next one
C24_Witness ==
    /\ database = 2
    /\ handles[1].st = "detached"
    /\ readTransactionPromise.st = "resolved"
    /\ txs[readTransactionPromise.tx].h = 1

\* the numbers greater than 0 that the elements of array convert to
KeysIn(array) ==
    {Number(array.s[k]) : k \in {j \in 1..Len(array.s) :
                                    Number(array.s[j]).t = "number" /\ Number(array.s[j]).n > 0}}

\* the first place of array whose element converts to the number x
FirstPlace(array, x) ==
    CHOOSE k \in 1..Len(array.s) :
        /\ Number(array.s[k]) = x
        /\ \A j \in 1..(k - 1) : Number(array.s[j]) # x

\* C25: filterKeys of an array returns the numbers greater than 0 that its
\* elements convert to, each once, in the order in which they first occur;
\* applied to its own result it returns that result; of anything but an array
\* it throws; parseKey(v) is Number(v) when that is greater than 0, else -1.
C25_FilterKeys ==
    /\ (keyCall.fn = "filterKeys" /\ keyCall.step # "call" /\ keyCall.arg.t = "array")
          => LET out == keyCall.out.s IN
             /\ keyCall.out.t = "array"
             /\ \A i \in 1..Len(out) : out[i].t = "number" /\ out[i].n > 0
             /\ \A i, j \in 1..Len(out) : i # j => out[i] # out[j]
             /\ {out[i] : i \in 1..Len(out)} = KeysIn(keyCall.arg)
             /\ \A i, j \in 1..Len(out) :
                   i < j => FirstPlace(keyCall.arg, out[i]) < FirstPlace(keyCall.arg, out[j])
    /\ (keyCall.fn = "filterKeys" /\ keyCall.step = "returnedAgain")
          => keyCall.again = keyCall.out
    /\ (keyCall.fn = "filterKeys" /\ keyCall.step # "call" /\ keyCall.arg.t # "array")
          => keyCall.out.t = "error"
    /\ (keyCall.fn = "parseKey" /\ keyCall.step = "returned")
          => LET v == Number(keyCall.arg) IN
             keyCall.out = IF v.t = "number" /\ v.n > 0 THEN v ELSE JSNumber(-1)

\* filterKeys(['abc', ' 2', 2]) has returned [2] and, applied to [2], [2] again
C25_Witness ==
    /\ keyCall.fn = "filterKeys"
    /\ keyCall.step = "returnedAgain"
    /\ keyCall.arg = JSArray(<<JSString(<<"a">>), JSString(<<" ", "2">>), JSNumber(2)>>)
    /\ keyCall.out = JSArray(<<JSNumber(2)>>)

====
